---- MODULE Spec2Model ----
(***************************************************************************)
(* protoc-gen-frontend-api: the plugin run (option parsing, directory      *)
(* reset, per-service rendering into the configured target directories).   *)
(*                                                                         *)
(* Strings are sequences of atoms.  An atom is one character, except that  *)
(* a fixed word that the program never splits (a key such as               *)
(* "output_paths", a template literal such as "Api.ts") is written as one  *)
(* atom.  The delimiters "," "=" ";" ":" "/" and the blank are always      *)
(* atoms of their own, so splitting and trimming act as in the code.       *)
(***************************************************************************)
EXTENDS Integers, Sequences, FiniteSets, TLC

VARIABLES
    param,      \* gen.Request.Parameter
    gen,        \* gen.Files: the batch of files with their services
    fs,         \* the file system: path -> node
    fs0,        \* the file system when the invocation started
    config,     \* *PluginConfig returned by parsePluginOptions
    pc,         \* position in main / generateFrontendApi
    fi,         \* index into gen.Files
    si,         \* index into f.Services
    ti,         \* index into the target list being walked
    methods,    \* []MethodInfo of the service being generated
    err,        \* the error main returned, or NoErr
    resets,     \* paths clearOutputDir has removed and recreated, in order
    written,    \* os.WriteFile calls that succeeded, in order
    skipped,    \* render jobs skipped because os.Stat said "not exist"
    value,      \* the value handed to parseOutputPaths
    paths,      \* what parseOutputPaths returned for value
    pdone,      \* whether parseOutputPaths has returned
    first       \* how an earlier invocation on the same request ended

vars == <<param, gen, fs, fs0, config, pc, fi, si, ti, methods, err, resets,
          written, skipped, value, paths, pdone, first>>

mainVars == <<param, gen, fs, fs0, config, pc, fi, si, ti, methods, err,
              resets, written, skipped>>

parseVars == <<value, paths, pdone>>

-----------------------------------------------------------------------------
(* package strings *)

Str(a) == <<a>>

IsSpace(c) == c \in {" ", "\t"}

\* strings.TrimSpace
TrimSpace(s) ==
    LET keep == {k \in 1..Len(s) : ~IsSpace(s[k])}
    IN  IF keep = {} THEN <<>>
        ELSE LET lo == CHOOSE k \in keep : \A m \in keep : k <= m
                 hi == CHOOSE k \in keep : \A m \in keep : k >= m
             IN  SubSeq(s, lo, hi)

\* index of the first occurrence of the one-atom separator sep in s, 0 if none
IndexOf(s, sep) ==
    LET hits == {k \in 1..Len(s) : s[k] = sep}
    IN  IF hits = {} THEN 0 ELSE CHOOSE k \in hits : \A m \in hits : k <= m

\* strings.Split(s, sep) for a one-atom separator
RECURSIVE Split(_, _)
Split(s, sep) ==
    LET k == IndexOf(s, sep)
    IN  IF k = 0 THEN <<s>>
        ELSE <<SubSeq(s, 1, k - 1)>> \o Split(SubSeq(s, k + 1, Len(s)), sep)

\* strings.SplitN(s, sep, 2) for a one-atom separator
SplitN2(s, sep) ==
    LET k == IndexOf(s, sep)
    IN  IF k = 0 THEN <<s>>
        ELSE <<SubSeq(s, 1, k - 1), SubSeq(s, k + 1, Len(s))>>

HasSuffix(s, suf) ==
    /\ Len(s) >= Len(suf)
    /\ SubSeq(s, Len(s) - Len(suf) + 1, Len(s)) = suf

HasPrefix(s, pre) ==
    /\ Len(s) >= Len(pre)
    /\ SubSeq(s, 1, Len(pre)) = pre

TrimSuffix(s, suf) ==
    IF HasSuffix(s, suf) THEN SubSeq(s, 1, Len(s) - Len(suf)) ELSE s

TrimPrefix(s, pre) ==
    IF HasPrefix(s, pre) THEN SubSeq(s, Len(pre) + 1, Len(s)) ELSE s

-----------------------------------------------------------------------------
(* option parsing *)

OutputPathConfig(p, imp) == [Path |-> p, ServiceImport |-> imp]

\* one iteration of the loop of parseOutputPaths: append the target of the
\* entry pathStr, if it has one
AppendEntryNoTrim(acc, pathStr) ==
    LET parts == SplitN2(pathStr, ":")
    IN  IF TrimSpace(pathStr) = <<>> THEN acc
        ELSE IF Len(parts) = 2
             THEN Append(acc, OutputPathConfig(parts[1], parts[2]))
             ELSE Append(acc, OutputPathConfig(pathStr, <<>>))

AppendEntry(acc, entry) ==
    LET pathStr == TrimSpace(entry)
        parts == SplitN2(pathStr, ":")
    IN  IF pathStr = <<>> THEN acc
        ELSE IF Len(parts) = 2
             THEN Append(acc, OutputPathConfig(TrimSpace(parts[1]),
                                               TrimSpace(parts[2])))
             ELSE Append(acc, OutputPathConfig(pathStr, <<>>))

RECURSIVE FoldEntries(_, _)
FoldEntries(acc, entries) ==
    IF entries = <<>> THEN acc
    ELSE FoldEntries(AppendEntry(acc, Head(entries)), Tail(entries))

parseOutputPaths(v) == FoldEntries(<<>>, Split(v, ";"))

DefaultConfigWithTarget ==
    [ServiceImport   |-> Str("./api"),
     ServiceImportJS |-> <<>>,
     TypesImportPath |-> Str("@/api/proto-types"),
     OutputPaths     |-> <<OutputPathConfig(<<"a">>, <<>>)>>,
     OutputPathsJS   |-> <<>>]

DefaultConfig ==
    [ServiceImport   |-> Str("./api"),
     ServiceImportJS |-> <<>>,
     TypesImportPath |-> Str("@/api/proto-types"),
     OutputPaths     |-> <<>>,
     OutputPathsJS   |-> <<>>]

\* the body of the loop over pairs in parsePluginOptions
ApplyPairAnyKey(cfg, pair) ==
    LET kv == SplitN2(pair, "=")
    IN  IF Len(kv) # 2 THEN cfg
        ELSE [cfg EXCEPT !.ServiceImport = TrimSpace(kv[2])]

ApplyPair(cfg, pair) ==
    LET kv == SplitN2(pair, "=")
    IN  IF Len(kv) # 2 THEN cfg
        ELSE LET key == TrimSpace(kv[1])
                 val == TrimSpace(kv[2])
             IN  CASE key = Str("service_import") ->
                        [cfg EXCEPT !.ServiceImport = val]
                   [] key = Str("service_import_js") ->
                        [cfg EXCEPT !.ServiceImportJS = val]
                   [] key = Str("types_import_path") ->
                        [cfg EXCEPT !.TypesImportPath = val]
                   [] key = Str("output_paths") ->
                        [cfg EXCEPT !.OutputPaths = parseOutputPaths(val)]
                   [] key = Str("output_paths_js") ->
                        [cfg EXCEPT !.OutputPathsJS = parseOutputPaths(val)]
                   [] OTHER -> cfg

RECURSIVE FoldPairs(_, _)
FoldPairs(cfg, pairs) ==
    IF pairs = <<>> THEN cfg
    ELSE FoldPairs(ApplyPair(cfg, Head(pairs)), Tail(pairs))

parsePluginOptions(p) ==
    IF p = <<>> THEN DefaultConfig
    ELSE FoldPairs(DefaultConfig, Split(p, ","))

-----------------------------------------------------------------------------
(* the file system (package os, path/filepath)                              *)
(*                                                                          *)
(* fs is a function from the paths that exist to their nodes.  Paths are    *)
(* relative to the working directory, which always exists, and are clean    *)
(* (no "." or ".." component, no trailing "/"), so a path names one node.   *)

DirNode == [kind |-> "dir", data |-> <<>>]

FileNode(data) == [kind |-> "file", data |-> data]

Exists(f, p) == p \in DOMAIN f

IsDir(f, p) == Exists(f, p) /\ f[p].kind = "dir"

IsFile(f, p) == Exists(f, p) /\ f[p].kind = "file"

\* q lies strictly below p
Under(p, q) == HasPrefix(q, p \o <<"/">>)

\* the proper ancestors of p: its prefixes that end right before a "/"
Ancestors(p) == {SubSeq(p, 1, k - 1) : k \in {m \in 2..Len(p) : p[m] = "/"}}

\* filepath.Dir(p); <<>> stands for the working directory
Parent(p) ==
    LET slashes == {m \in 1..Len(p) : p[m] = "/"}
    IN  IF slashes = {} THEN <<>>
        ELSE LET k == CHOOSE m \in slashes : \A n \in slashes : m >= n
             IN  SubSeq(p, 1, k - 1)

\* filepath.Join(dir, name) for a clean non-empty dir
Join(dir, name) == dir \o <<"/">> \o name

\* os.Stat(p): "ok", "notexist" (ENOENT) or "error" (any other errno).
\* An empty path and a path with a missing component give ENOENT; a path
\* through a regular file gives ENOTDIR; a path that exists can still fail
\* to be examined (EACCES, EIO).
Stat(f, p) ==
    IF p = <<>> THEN {"notexist"}
    ELSE IF \E a \in Ancestors(p) : IsFile(f, a) THEN {"error"}
    ELSE IF Exists(f, p) THEN {"ok", "error"}
    ELSE {"notexist"}

Restrict(f, keep) == [q \in keep |-> f[q]]

\* the file system after os.RemoveAll(p) succeeded
RemoveAll(f, p) ==
    Restrict(f, {q \in DOMAIN f : q # p /\ ~Under(p, q)})

\* the file system after os.RemoveAll(p) failed: nothing was removed, or
\* what lies below p was removed and p itself was not
RemoveAllFailed(f, p) ==
    {f, Restrict(f, {q \in DOMAIN f : ~Under(p, q)})}

\* the file system after os.MkdirAll(p, 0755) succeeded
MkdirAll(f, p) ==
    LET made == (Ancestors(p) \cup {p}) \ DOMAIN f
    IN  [q \in DOMAIN f \cup made |-> IF q \in made THEN DirNode ELSE f[q]]

\* os.WriteFile(p, data, 0644) can succeed: the parent is a directory and p
\* is not one
CanWrite(f, p) ==
    /\ Parent(p) = <<>> \/ IsDir(f, Parent(p))
    /\ ~IsDir(f, p)

WriteFile(f, p, data) ==
    [q \in DOMAIN f \cup {p} |-> IF q = p THEN FileNode(data) ELSE f[q]]

\* clearOutputDir(dir): the possible results, each the file system left
\* behind, whether the call returned nil, and whether it removed and
\* recreated dir
ClearResult(f, ok, did) == [fs |-> f, ok |-> ok, did |-> did]

clearOutputDirMkdirOnly(f, dir) ==
    IF dir = <<>> THEN {ClearResult(f, TRUE, FALSE)}
    ELSE UNION {
        CASE st = "notexist" -> {ClearResult(f, TRUE, FALSE)}
          [] st = "error"    -> {ClearResult(f, FALSE, FALSE)}
          [] st = "ok"       -> {ClearResult(f, FALSE, FALSE),
                                 ClearResult(MkdirAll(f, dir), TRUE, TRUE)}
        : st \in Stat(f, dir)}

clearOutputDir(f, dir) ==
    IF dir = <<>> THEN {ClearResult(f, TRUE, FALSE)}
    ELSE UNION {
        CASE st = "notexist" -> {ClearResult(f, TRUE, FALSE)}
          [] st = "error"    -> {ClearResult(f, FALSE, FALSE)}
          [] st = "ok"       ->
                {ClearResult(g, FALSE, FALSE) : g \in RemoveAllFailed(f, dir)}
                \cup {ClearResult(RemoveAll(f, dir), FALSE, FALSE),
                      ClearResult(MkdirAll(RemoveAll(f, dir), dir), TRUE, TRUE)}
        : st \in Stat(f, dir)}

-----------------------------------------------------------------------------
(* more of package strings, package sort *)

Upper == <<"A", "B", "C", "D", "E", "F", "G", "H", "I", "J", "K", "L", "M",
           "N", "O", "P", "Q", "R", "S", "T", "U", "V", "W", "X", "Y", "Z">>

Lower == <<"a", "b", "c", "d", "e", "f", "g", "h", "i", "j", "k", "l", "m",
           "n", "o", "p", "q", "r", "s", "t", "u", "v", "w", "x", "y", "z">>

\* strings.ToLower, atom by atom; the word atoms of the program are lower
\* case already, except "Service" with its upper-case first letter
ToLowerAtom(c) ==
    IF c = "Service" THEN "service"
    ELSE IF \E k \in 1..Len(Upper) : Upper[k] = c
    THEN Lower[CHOOSE k \in 1..Len(Upper) : Upper[k] = c]
    ELSE c

ToLower(s) == [k \in 1..Len(s) |-> ToLowerAtom(s[k])]

\* strings.ReplaceAll(s, old, new) for one-atom old and new
ReplaceAll(s, old, new) == [k \in 1..Len(s) |-> IF s[k] = old THEN new ELSE s[k]]

RECURSIVE JoinStrings(_, _)
\* strings.Join(list, sep)
JoinStrings(list, sep) ==
    IF list = <<>> THEN <<>>
    ELSE IF Len(list) = 1 THEN list[1]
    ELSE list[1] \o sep \o JoinStrings(Tail(list), sep)

\* the byte of a one-character atom, for the characters that occur in type
\* names and in schema file paths
Rank(c) ==
    CASE c = "." -> 46
      [] c = "/" -> 47
      [] c = "\\" -> 92
      [] c = "_" -> 95
      [] \E k \in 1..Len(Upper) : Upper[k] = c ->
            64 + (CHOOSE k \in 1..Len(Upper) : Upper[k] = c)
      [] \E k \in 1..Len(Lower) : Lower[k] = c ->
            96 + (CHOOSE k \in 1..Len(Lower) : Lower[k] = c)

\* s < t as Go compares strings (byte-wise)
RECURSIVE StrLess(_, _)
StrLess(s, t) ==
    IF t = <<>> THEN FALSE
    ELSE IF s = <<>> THEN TRUE
    ELSE IF Head(s) = Head(t) THEN StrLess(Tail(s), Tail(t))
    ELSE Rank(Head(s)) < Rank(Head(t))

\* sort.Strings applied to the elements of a set of distinct strings
RECURSIVE SortStrings(_)
SortStrings(set) ==
    IF set = {} THEN <<>>
    ELSE LET least == CHOOSE x \in set : \A y \in set \ {x} : StrLess(x, y)
         IN  <<least>> \o SortStrings(set \ {least})

\* uniqueAndSort
uniqueNoSort(strs) == strs

uniqueAndSort(strs) == SortStrings({strs[k] : k \in 1..Len(strs)})

-----------------------------------------------------------------------------
(* the schema as protogen hands it over *)

\* (google.api.http) of a method: kind "none" (no annotation), "nopattern"
\* (annotation without a pattern), one of the five verbs, or "custom"
Http(kind, path) == [kind |-> kind, path |-> path]

Message(name, file) == [Name |-> name, File |-> file]

Method(name, http, input, output) ==
    [Name |-> name, Http |-> http, Input |-> input, Output |-> output]

Service(name, ms) == [Name |-> name, Methods |-> ms]

File(generate, services) == [Generate |-> generate, Services |-> services]

Verbs == {"post", "get", "put", "delete", "patch"}

NoRule == [Method |-> "", Path |-> <<>>]

HttpRule(method, path) == [Method |-> method, Path |-> path]

\* extractHttpRule
extractHttpRuleAnyPath(method) ==
    IF method.Http.kind \in Verbs
    THEN HttpRule(method.Http.kind, method.Http.path)
    ELSE NoRule

extractHttpRule(method) ==
    IF method.Http.kind \in Verbs /\ Len(method.Http.path) > 0
    THEN HttpRule(method.Http.kind, method.Http.path)
    ELSE NoRule

\* toCamelCase
toCamelCaseAll(s) == ToLower(s)

toCamelCase(s) ==
    IF Len(s) = 0 THEN s
    ELSE ToLower(SubSeq(s, 1, 1)) \o SubSeq(s, 2, Len(s))

MethodInfo(m, rule) ==
    [MethodName   |-> m.Name,
     HttpPath     |-> rule.Path,
     HttpMethod   |-> ToLower(Str(rule.Method)),
     RequestType  |-> m.Input.Name,
     ResponseType |-> m.Output.Name]

\* the loop over service.Methods at the head of generateFrontendApi
RECURSIVE BoundMethods(_)
BoundMethods(ms) ==
    IF ms = <<>> THEN <<>>
    ELSE LET rule == extractHttpRule(Head(ms))
         IN  (IF rule # NoRule THEN <<MethodInfo(Head(ms), rule)>> ELSE <<>>)
             \o BoundMethods(Tail(ms))

\* protoFileToImportPath
protoFileToImportPath(protoFilePath) ==
    IF protoFilePath = <<>> THEN <<>>
    ELSE ReplaceAll(TrimPrefix(TrimSuffix(protoFilePath, Str(".proto")),
                               <<".", "/">>), "\\", "/")

\* typeFileMap of collectTypeImports after the loop over service.Methods:
\* the last assignment to a type name wins
RECURSIVE TypeFileMapInputsOnly(_, _, _)
TypeFileMapInputsOnly(acc, ms, names) ==
    IF ms = <<>> THEN acc
    ELSE LET m == Head(ms)
             put(f, k, v) == [x \in DOMAIN f \cup {k} |-> IF x = k THEN v ELSE f[x]]
         IN  IF m.Name \notin names THEN TypeFileMapInputsOnly(acc, Tail(ms), names)
             ELSE TypeFileMapInputsOnly(put(acc, m.Input.Name, m.Input.File),
                                        Tail(ms), names)

RECURSIVE TypeFileMap(_, _, _)
TypeFileMap(acc, ms, names) ==
    IF ms = <<>> THEN acc
    ELSE LET m == Head(ms)
             put(f, k, v) == [x \in DOMAIN f \cup {k} |-> IF x = k THEN v ELSE f[x]]
         IN  IF m.Name \notin names THEN TypeFileMap(acc, Tail(ms), names)
             ELSE TypeFileMap(put(put(acc, m.Input.Name, m.Input.File),
                                  m.Output.Name, m.Output.File),
                              Tail(ms), names)

EmptyMap == [x \in {} |-> <<>>]

\* the orders in which one "range" over a Go map with the keys set can yield
\* them: the language leaves the order open
Enumerate(set) ==
    {o \in [1..Cardinality(set) -> set] : \A x \in set : \E k \in DOMAIN o : o[k] = x}

\* collectTypeImports: import path -> sorted type names, for every order the
\* range over typeFileMap can take
collectTypeImports(service, ms) ==
    LET names == {ms[k].MethodName : k \in 1..Len(ms)}
        tfm == TypeFileMap(EmptyMap, service.Methods, names)
        pathOf(t) == protoFileToImportPath(tfm[t])
        keys == {pathOf(t) : t \in DOMAIN tfm} \ {<<>>}
        typeNames(o, ip) == SelectSeq(o, LAMBDA t : pathOf(t) = ip)
    IN  {[ip \in keys |-> uniqueAndSort(typeNames(o, ip))] : o \in Enumerate(DOMAIN tfm)}

-----------------------------------------------------------------------------
(* rendering *)

ServiceInfo(serviceName, apiFileName, ms, serviceImport, typesImportPath, typeImports) ==
    [ServiceName     |-> serviceName,
     ApiFileName     |-> apiFileName,
     Methods         |-> ms,
     ServiceImport   |-> serviceImport,
     TypesImportPath |-> typesImportPath,
     TypeImports     |-> typeImports]

\* the type import lines of generateTypeScriptCode, for the sorted paths
RECURSIVE TypeImportLinesAlwaysSlash(_, _)
TypeImportLinesAlwaysSlash(data, importPaths) ==
    IF importPaths = <<>> THEN <<>>
    ELSE <<"import type { ">>
         \o JoinStrings(data.TypeImports[Head(importPaths)], <<", ">>)
         \o <<" } from '">> \o data.TypesImportPath \o <<"/">> \o Head(importPaths)
         \o <<"';\n">>
         \o TypeImportLinesAlwaysSlash(data, Tail(importPaths))

RECURSIVE TypeImportLines(_, _)
TypeImportLines(data, importPaths) ==
    IF importPaths = <<>> THEN <<>>
    ELSE LET importPath == Head(importPaths)
             root == data.TypesImportPath
             fullImportPath ==
                 (IF ~HasSuffix(root, <<"/">>) /\ importPath # <<>>
                  THEN root \o <<"/">> ELSE root) \o importPath
         IN  <<"import type { ">>
             \o JoinStrings(data.TypeImports[importPath], <<", ">>)
             \o <<" } from '">> \o fullImportPath \o <<"';\n">>
             \o TypeImportLines(data, Tail(importPaths))

\* the entries of the object literal of generateTypeScriptCode, from entry k
RECURSIVE TypeScriptEntries(_, _)
TypeScriptEntries(ms, k) ==
    IF k > Len(ms) THEN <<>>
    ELSE <<"  ">> \o ms[k].MethodName \o <<": (data: ">> \o ms[k].RequestType
         \o <<"): Promise<">> \o ms[k].ResponseType \o <<"> =>\n">>
         \o <<"    service.">> \o ms[k].HttpMethod \o <<"('">> \o ms[k].HttpPath
         \o <<"', data)">>
         \o (IF k < Len(ms) THEN <<",\n">> ELSE <<"\n">>)
         \o TypeScriptEntries(ms, k + 1)

\* generateTypeScriptCode, for every order the range over data.TypeImports
\* can take
generateTypeScriptCode(data) ==
    {<<"import service from '">> \o data.ServiceImport \o <<"';\n">>
     \o TypeImportLines(data, SortStrings({importPaths[k] : k \in DOMAIN importPaths}))
     \o <<"\n">>
     \o <<"export const ">> \o data.ApiFileName \o <<" = {\n">>
     \o TypeScriptEntries(data.Methods, 1)
     \o <<"};\n\n">>
     \o <<"export default ">> \o data.ApiFileName \o <<";\n">>
     : importPaths \in Enumerate(DOMAIN data.TypeImports)}

\* the entries of the object literal of generateJavaScriptCode, from entry k
RECURSIVE JavaScriptEntriesTrailingComma(_, _)
JavaScriptEntriesTrailingComma(ms, k) ==
    IF k > Len(ms) THEN <<>>
    ELSE <<"    ">> \o ms[k].MethodName \o <<": (data) => service.">>
         \o ms[k].HttpMethod \o <<"('">> \o ms[k].HttpPath \o <<"', data)">>
         \o <<",\n">>
         \o JavaScriptEntriesTrailingComma(ms, k + 1)

RECURSIVE JavaScriptEntries(_, _)
JavaScriptEntries(ms, k) ==
    IF k > Len(ms) THEN <<>>
    ELSE <<"    ">> \o ms[k].MethodName \o <<": (data) => service.">>
         \o ms[k].HttpMethod \o <<"('">> \o ms[k].HttpPath \o <<"', data)">>
         \o (IF k < Len(ms) THEN <<",\n">> ELSE <<"\n">>)
         \o JavaScriptEntries(ms, k + 1)

\* generateJavaScriptCode
generateJavaScriptCode(data) ==
    <<"import service from '">> \o data.ServiceImport \o <<"';\n\n">>
    \o <<"export const ">> \o data.ApiFileName \o <<" = {\n">>
    \o JavaScriptEntries(data.Methods, 1)
    \o <<"};\n\n">>
    \o <<"export default ">> \o data.ApiFileName \o <<";\n">>

-----------------------------------------------------------------------------
(* inputs of an invocation *)

KV(key, val) == <<key, "=">> \o val

\* values of output_paths / output_paths_js
ListA      == <<"a">>
ListAC     == <<"a", ";", "c">>
ListBA     == <<"a", "/", "b", ";", "a">>
ListAB     == <<"a", ";", "a", "/", "b">>
ListAFile  == <<"a", ";", "a", "/", "u", "Api.ts">>
ListDup    == <<"a", ":", "x", ";", " ", "a", ";">>
ListNoPath == <<" ", ":", "x", ";", "c">>
ListCA     == <<"c", ":", "y", ";", "a">>
ListB      == <<"a", "/", "b">>

Params ==
    { <<>>,
      KV("service_import", <<"s">>),
      <<"verbose">>,
      KV("service_import", <<"@", "/", "s">>) \o <<",">> \o KV("output_paths", ListA)
          \o <<",">> \o KV("types_import_path", <<"@", "/", "t">>),
      KV("output_paths_js", ListA) \o <<",">> \o KV("service_import_js", <<"j">>),
      KV("output_paths_js", ListCA),
      KV("output_paths", ListAC),
      KV("output_paths", ListBA),
      KV("output_paths", ListAB),
      KV("output_paths", ListAFile),
      KV("output_paths", ListDup),
      KV("output_paths", ListNoPath),
      KV("output_paths", ListB),
      KV("output_paths", ListA) \o <<",">> \o KV("output_paths_js", ListCA),
      KV("output_paths", ListA) \o <<",">> \o KV("output_paths_js", ListB),
      KV("output_paths", ListB) \o <<",">> \o KV("output_paths_js", ListA),
      KV("output_paths", ListAC) \o <<",">> \o KV("output_paths_js", ListA)
          \o <<",">> \o KV("service_import_js", <<"j">>) }

ProtoU == <<"p", "/", "u", ".proto">>
ProtoV == <<".", "/", "v", ".proto">>

MsgQ == Message(<<"Q">>, ProtoU)
MsgR == Message(<<"R">>, ProtoU)
MsgE == Message(<<"E">>, ProtoV)

PathGet == <<"/", "g">>

MGet    == Method(<<"G">>, Http("post", PathGet), MsgQ, MsgR)
MList   == Method(<<"L">>, Http("get", <<"/", "l">>), MsgE, MsgQ)
MPlain  == Method(<<"N">>, Http("none", <<>>), MsgQ, MsgE)
MCustom == Method(<<"K">>, Http("custom", <<"/", "k">>), MsgE, MsgE)
MEmpty  == Method(<<"Z">>, Http("put", <<>>), MsgQ, MsgR)

SvcUser     == Service(<<"U", "Service">>, <<MGet>>)
SvcUserBare == Service(<<"U">>, <<MList>>)
SvcMixed    == Service(<<"W", "Service">>, <<MPlain, MGet, MList>>)
SvcUnbound  == Service(<<"V", "Service">>, <<MPlain, MCustom, MEmpty>>)
SvcNone     == Service(<<"N", "Service">>, <<>>)

Batches ==
    { <<File(TRUE, <<SvcUser>>)>>,
      <<File(TRUE, <<SvcUnbound, SvcUser>>)>>,
      <<File(FALSE, <<SvcMixed>>), File(TRUE, <<SvcNone, SvcMixed>>)>>,
      <<File(TRUE, <<SvcUser, SvcUserBare>>), File(TRUE, <<>>)>>,
      <<>> }

StaleData == <<"stale">>

DirA  == <<"a">>
DirAB == <<"a", "/", "b">>
DirC  == <<"c">>

FsOf(entries) ==
    [q \in {e[1] : e \in entries} |-> (CHOOSE e \in entries : e[1] = q)[2]]

\* how many stale files an existing directory holds when the run starts
MaxStale == 1

StaleName(n) == [k \in 1..n |-> "o"]

Stale(dir) == {<<Join(dir, StaleName(n)), FileNode(StaleData)>> : n \in 1..MaxStale}

TreesA ==
    { {},
      {<<DirA, FileNode(StaleData)>>},
      {<<DirA, DirNode>>} \cup Stale(DirA),
      {<<DirA, DirNode>>, <<Join(DirA, <<"u", "Api.ts">>), FileNode(StaleData)>>},
      {<<DirA, DirNode>>, <<DirAB, DirNode>>} \cup Stale(DirA) \cup Stale(DirAB) }

TreesC == { {}, {<<DirC, DirNode>>} \cup Stale(DirC) }

InitialFS == {FsOf(ta \cup tc) : ta \in TreesA, tc \in TreesC}

NoErr == [kind |-> "none", path |-> <<>>]

Failure(kind, path) == [kind |-> kind, path |-> path]

\* no invocation has ended yet
NoRun == [done |-> FALSE, fs |-> EmptyMap]

NoConfig == [ServiceImport |-> <<>>, ServiceImportJS |-> <<>>,
             TypesImportPath |-> <<>>, OutputPaths |-> <<>>, OutputPathsJS |-> <<>>]

Init ==
    /\ param \in Params
    /\ gen \in Batches
    /\ fs \in InitialFS
    /\ fs0 = fs
    /\ config = NoConfig
    /\ pc = "parse"
    /\ fi = 1 /\ si = 1 /\ ti = 1
    /\ methods = <<>>
    /\ err = NoErr
    /\ resets = <<>>
    /\ written = <<>>
    /\ skipped = <<>>
    /\ value = <<>> /\ paths = <<>> /\ pdone = FALSE
    /\ first = NoRun

-----------------------------------------------------------------------------
(* func main: the callback given to protogen.Options.Run *)

\* the order of the phases of the callback
MainOrderClearLast == <<"parse", "clearTS", "services", "clearJS", "done">>

MainOrder == <<"parse", "clearTS", "clearJS", "services", "done">>

NextPhase(phase) ==
    MainOrder[1 + CHOOSE k \in 1..Len(MainOrder) : MainOrder[k] = phase]

ParseOptions ==
    /\ pc = "parse"
    /\ config' = parsePluginOptions(param)
    /\ pc' = NextPhase("parse")
    /\ UNCHANGED <<param, gen, fs, fs0, fi, si, ti, methods, err, resets,
                   written, skipped>>
    /\ UNCHANGED <<parseVars, first>>

\* one iteration of a loop "for _, outputPath := range targets" of main, or
\* the fall through to the next phase when the range is exhausted
ClearLoopContinuing(targets, errKind, phase) ==
    IF ti > Len(targets)
    THEN /\ pc' = NextPhase(phase)
         /\ ti' = 1
         /\ UNCHANGED <<fs, err, resets>>
    ELSE \E r \in clearOutputDir(fs, targets[ti].Path) :
            /\ fs' = r.fs
            /\ resets' = IF r.did THEN Append(resets, targets[ti].Path) ELSE resets
            /\ ti' = ti + 1
            /\ err' = IF r.ok THEN err ELSE Failure(errKind, targets[ti].Path)
            /\ UNCHANGED pc

ClearLoop(targets, errKind, phase) ==
    IF ti > Len(targets)
    THEN /\ pc' = NextPhase(phase)
         /\ ti' = 1
         /\ UNCHANGED <<fs, err, resets>>
    ELSE \E r \in clearOutputDir(fs, targets[ti].Path) :
            /\ fs' = r.fs
            /\ resets' = IF r.did THEN Append(resets, targets[ti].Path) ELSE resets
            /\ IF r.ok
               THEN /\ ti' = ti + 1
                    /\ UNCHANGED <<pc, err>>
               ELSE /\ pc' = "failed"
                    /\ err' = Failure(errKind, targets[ti].Path)
                    /\ UNCHANGED ti

\* the two loops of main over config.OutputPaths and config.OutputPathsJS run
\* from the file system f: the file systems they can leave, and whether main
\* got past them
RECURSIVE ResetOutcomes(_, _)
ResetOutcomes(f, targets) ==
    IF targets = <<>> THEN {[fs |-> f, ok |-> TRUE]}
    ELSE UNION {IF r.ok THEN ResetOutcomes(r.fs, Tail(targets))
                ELSE {[fs |-> r.fs, ok |-> FALSE]}
                : r \in clearOutputDir(f, Head(targets).Path)}

ClearTS ==
    /\ pc = "clearTS"
    /\ ClearLoop(config.OutputPaths, "clear", "clearTS")
    /\ UNCHANGED <<param, gen, fs0, config, fi, si, methods, written, skipped>>
    /\ UNCHANGED <<parseVars, first>>

ClearJS ==
    /\ pc = "clearJS"
    /\ ClearLoop(config.OutputPathsJS, "clearJS", "clearJS")
    /\ UNCHANGED <<param, gen, fs0, config, fi, si, methods, written, skipped>>
    /\ UNCHANGED <<parseVars, first>>

\* the range over gen.Files is exhausted: return nil
EndOfFiles ==
    /\ pc = "services"
    /\ fi > Len(gen)
    /\ pc' = NextPhase("services")
    /\ UNCHANGED <<param, gen, fs, fs0, config, fi, si, ti, methods, err,
                   resets, written, skipped>>
    /\ UNCHANGED <<parseVars, first>>

\* a file that is not to be generated, or whose services are exhausted
NextFile ==
    /\ pc = "services"
    /\ fi <= Len(gen)
    /\ ~gen[fi].Generate \/ si > Len(gen[fi].Services)
    /\ fi' = fi + 1
    /\ si' = 1
    /\ UNCHANGED <<param, gen, fs, fs0, config, pc, ti, methods, err, resets,
                   written, skipped>>
    /\ UNCHANGED <<parseVars, first>>

-----------------------------------------------------------------------------
(* func generateFrontendApi *)

CurrentService == gen[fi].Services[si]

serviceName(service) == TrimSuffix(service.Name, Str("Service"))

apiFileName(service) == toCamelCase(serviceName(service)) \o Str("Api")

fileNameTS(service) == toCamelCase(serviceName(service)) \o Str("Api.ts")

fileNameJS(service) == toCamelCase(serviceName(service)) \o Str("Api.js")

\* "if len(methods) == 0 { return nil }"
NeverSkipped(ms) == FALSE

NoMethods(ms) == Len(ms) = 0

\* "allOutputPaths := config.OutputPaths; if len(allOutputPaths) == 0 { return nil }"
NoOutputPaths(cfg) == Len(cfg.OutputPaths) = 0

\* the service import of a typed target
ServiceImportTS(cfg, target) ==
    IF target.ServiceImport = <<>> THEN cfg.ServiceImport ELSE target.ServiceImport

\* the service import of an untyped target
ServiceImportJSNoFallback(cfg, target) ==
    IF target.ServiceImport # <<>> THEN target.ServiceImport ELSE cfg.ServiceImport

ServiceImportJS(cfg, target) ==
    IF target.ServiceImport # <<>> THEN target.ServiceImport
    ELSE IF cfg.ServiceImportJS # <<>> THEN cfg.ServiceImportJS
    ELSE cfg.ServiceImport

\* the texts generateTypeScriptCode can return for a target
CodeTS(cfg, service, ms, target) ==
    UNION {generateTypeScriptCode(
               ServiceInfo(serviceName(service), apiFileName(service), ms,
                           ServiceImportTS(cfg, target), cfg.TypesImportPath,
                           typeImports))
           : typeImports \in collectTypeImports(service, ms)}

CodeJS(cfg, service, ms, target) ==
    generateJavaScriptCode(
        ServiceInfo(serviceName(service), apiFileName(service), ms,
                    ServiceImportJS(cfg, target), <<>>, EmptyMap))

Job(flavor, dir, path, data) ==
    [fi |-> fi, si |-> si, flavor |-> flavor, dir |-> dir, path |-> path,
     data |-> data]

\* the head of generateFrontendApi, up to the first loop
BeginService ==
    /\ pc = "services"
    /\ fi <= Len(gen)
    /\ gen[fi].Generate
    /\ si <= Len(gen[fi].Services)
    /\ LET ms == BoundMethods(CurrentService.Methods)
       IN  IF NoMethods(ms) \/ NoOutputPaths(config)
           THEN /\ si' = si + 1
                /\ UNCHANGED <<pc, ti, methods>>
           ELSE /\ pc' = "ts"
                /\ ti' = 1
                /\ methods' = ms
                /\ UNCHANGED si
    /\ UNCHANGED <<param, gen, fs, fs0, config, fi, err, resets, written, skipped>>
    /\ UNCHANGED <<parseVars, first>>

\* one iteration of a loop over targets of generateFrontendApi, after the
\* code and the file name were computed: os.Stat, then os.WriteFile
RenderJob(flavor, target, fileName, code, statErr, writeErr) ==
    \E st \in Stat(fs, target.Path) :
        CASE st = "notexist" ->
                /\ skipped' = Append(skipped, Job(flavor, target.Path, <<>>, <<>>))
                /\ ti' = ti + 1
                /\ UNCHANGED <<fs, pc, err, written>>
          [] st = "error" ->
                /\ pc' = "failed"
                /\ err' = Failure(statErr, target.Path)
                /\ UNCHANGED <<fs, ti, written, skipped>>
          [] st = "ok" ->
                LET fullPath == Join(target.Path, fileName)
                IN  \/ /\ CanWrite(fs, fullPath)
                       /\ fs' = WriteFile(fs, fullPath, code)
                       /\ written' = Append(written,
                                            Job(flavor, target.Path, fullPath, code))
                       /\ ti' = ti + 1
                       /\ UNCHANGED <<pc, err, skipped>>
                    \/ /\ pc' = "failed"
                       /\ err' = Failure(writeErr, fullPath)
                       /\ UNCHANGED <<fs, ti, written, skipped>>

\* the loop "for _, outputPathConfig := range allOutputPaths"
RenderTS ==
    /\ pc = "ts"
    /\ IF ti > Len(config.OutputPaths)
       THEN /\ pc' = "js"
            /\ ti' = 1
            /\ UNCHANGED <<fs, err, written, skipped, si, methods>>
       ELSE /\ \E code \in CodeTS(config, CurrentService, methods,
                                   config.OutputPaths[ti]) :
                  RenderJob("ts", config.OutputPaths[ti], fileNameTS(CurrentService),
                            code, "stat", "write")
            /\ UNCHANGED <<si, methods>>
    /\ UNCHANGED <<param, gen, fs0, config, fi, resets>>
    /\ UNCHANGED <<parseVars, first>>

\* the loop "for _, outputPathConfig := range config.OutputPathsJS" and the
\* final "return nil"
RenderJS ==
    /\ pc = "js"
    /\ IF ti > Len(config.OutputPathsJS)
       THEN /\ pc' = "services"
            /\ si' = si + 1
            /\ ti' = 1
            /\ methods' = <<>>
            /\ UNCHANGED <<fs, err, written, skipped>>
       ELSE /\ RenderJob("js", config.OutputPathsJS[ti], fileNameJS(CurrentService),
                         CodeJS(config, CurrentService, methods, config.OutputPathsJS[ti]),
                         "statJS", "writeJS")
            /\ UNCHANGED <<si, methods>>
    /\ UNCHANGED <<param, gen, fs0, config, fi, resets>>
    /\ UNCHANGED <<parseVars, first>>

Next ==
    \/ ParseOptions
    \/ ClearTS
    \/ ClearJS
    \/ EndOfFiles
    \/ NextFile
    \/ BeginService
    \/ RenderTS
    \/ RenderJS

Spec == Init /\ [][Next]_vars

-----------------------------------------------------------------------------
(* what the properties speak about *)

\* a method with an HTTP binding: one of the five verbs with a path
Bound(m) == m.Http.kind \in Verbs /\ m.Http.path # <<>>

HasBinding(service) ==
    \E k \in 1..Len(service.Methods) : Bound(service.Methods[k])

\* the services main hands to generateFrontendApi, as <<file, service>> indexes
Handled ==
    UNION {{<<f, k>> : k \in 1..Len(gen[f].Services)} :
              f \in {g \in 1..Len(gen) : gen[g].Generate}}

ServiceAt(h) == gen[h[1]].Services[h[2]]

Parsed == pc # "parse"

Range(seq) == {seq[k] : k \in 1..Len(seq)}

AllTargets == Range(config.OutputPaths) \cup Range(config.OutputPathsJS)

\* the configuration string sets neither target list
NoOutputKeys == \A k \in 1..Len(param) : param[k] \notin {"output_paths", "output_paths_js"}

\* q is a file this invocation wrote and that still holds what it wrote last
WrittenHere(q) ==
    /\ \E k \in 1..Len(written) : written[k].path = q
    /\ LET last == CHOOSE k \in 1..Len(written) :
                      /\ written[k].path = q
                      /\ \A m \in 1..Len(written) : written[m].path = q => m <= k
       IN  fs[q] = FileNode(written[last].data)

-----------------------------------------------------------------------------
(* properties *)

\* C1: with untyped targets only (output_paths_js set and its directory
\* there, no output_paths), a finished run has written <name>Api.js of every
\* service with a bound method into every untyped target directory, and has
\* written no .ts file.
C1_UntypedOnly ==
    (pc = "done" /\ config.OutputPaths = <<>> /\ config.OutputPathsJS # <<>>)
    => /\ \A h \in Handled : \A t \in Range(config.OutputPathsJS) :
            (HasBinding(ServiceAt(h)) /\ IsDir(fs0, t.Path) /\ IsDir(fs, t.Path))
            => IsFile(fs, Join(t.Path, fileNameJS(ServiceAt(h))))
       /\ \A k \in 1..Len(written) : written[k].flavor = "js"

\* C2: after a run that finished without error, whatever lies in a target
\* directory that existed before the run was written by this run.
C2_OnlyThisRun ==
    pc = "done"
    => \A t \in AllTargets :
          Exists(fs0, t.Path)
          => \A q \in DOMAIN fs : Under(t.Path, q) => WrittenHere(q)

C2_Witness ==
    /\ pc = "done"
    /\ \E t \in AllTargets :
          /\ \E q \in DOMAIN fs0 : Under(t.Path, q)
          /\ \E q \in DOMAIN fs : Under(t.Path, q)

\* C3: a service without a bound method has no file written (nor a render
\* job started) for it; handing it to generateFrontendApi changes nothing,
\* raises no error and leaves main at the next service.
C3_UnboundSkipped ==
    /\ [](\A j \in Range(written) \cup Range(skipped) :
             HasBinding(gen[j.fi].Services[j.si]))
    /\ [][(/\ pc = "services"
           /\ <<fi, si>> \in Handled
           /\ ~HasBinding(gen[fi].Services[si]))
          => (/\ pc' = "services" /\ fi' = fi /\ si' = si + 1
              /\ fs' = fs /\ err' = NoErr /\ written' = written)]_vars

C3_Witness ==
    /\ pc = "done"
    /\ \E j \in Range(written) :
          j.si > 1 /\ ~HasBinding(gen[j.fi].Services[j.si - 1])

\* C4: a configuration that sets neither output_paths nor output_paths_js
\* resets no directory and writes no file: the file system stays as it was,
\* no error is raised and the run goes on to its end.
C4_NoTargetsNoEffect ==
    NoOutputKeys
    => /\ fs = fs0
       /\ resets = <<>> /\ written = <<>> /\ skipped = <<>>
       /\ err = NoErr /\ pc # "failed"
       /\ pc = "done" \/ ENABLED Next

C4_Witness ==
    /\ pc = "done"
    /\ NoOutputKeys
    /\ param # <<>>
    /\ \E h \in Handled : HasBinding(ServiceAt(h))
    /\ IsDir(fs0, DirA)

\* C5: a target directory that does not exist when the run starts is not
\* reset, is never created, gets no file, and raises no error.
C5_MissingTargetSkipped ==
    Parsed
    => \A t \in AllTargets :
          ~Exists(fs0, t.Path)
          => /\ t.Path \notin Range(resets)
             /\ ~IsDir(fs, t.Path)
             /\ \A w \in Range(written) : w.dir # t.Path /\ ~Under(t.Path, w.path)
             /\ err # NoErr => (err.path # t.Path /\ ~Under(t.Path, err.path))

\* C6: all resets come before the first write: while main is still in its
\* reset loops nothing has been written, and no step that resets a directory
\* follows a write.
C6_ResetBeforeWrite ==
    /\ [](written # <<>> => pc \notin {"parse", "clearTS", "clearJS"})
    /\ [][(resets' # resets \/ pc \in {"clearTS", "clearJS"})
          => (written = <<>> /\ written' = <<>>)]_vars

C6_Witness ==
    /\ written # <<>>
    /\ Len(resets) >= 2
    /\ config.OutputPaths # <<>> /\ config.OutputPathsJS # <<>>

\* the reset loops of main have just run to their end
ResetDone ==
    /\ pc = "services" /\ fi = 1 /\ si = 1
    /\ written = <<>> /\ skipped = <<>>

EmptyDir(f, p) == IsDir(f, p) /\ \A q \in DOMAIN f : ~Under(p, q)

\* C7: the reset is idempotent: after it, every target directory that
\* existed is an empty directory and every missing one is still missing;
\* a second reset succeeds into the same file system; a missing directory
\* never makes a reset fail.
C7_ResetIdempotent ==
    /\ ResetDone
       => /\ \A t \in AllTargets :
                IF Exists(fs0, t.Path) THEN EmptyDir(fs, t.Path)
                ELSE ~Exists(fs, t.Path)
          /\ \A r \in ResetOutcomes(fs, config.OutputPaths \o config.OutputPathsJS) :
                r.ok => r.fs = fs
    /\ err.kind \in {"clear", "clearJS"} => Exists(fs0, err.path)

\* C8: a failed reset ends the run with an error naming the directory; no
\* later target is reset, no service is handled, no file is written.
C8_ResetFailureAborts ==
    err.kind \in {"clear", "clearJS"}
    => /\ pc = "failed" /\ ~ENABLED Next
       /\ written = <<>> /\ skipped = <<>>
       /\ fi = 1 /\ si = 1 /\ methods = <<>>
       /\ LET targets == IF err.kind = "clear" THEN config.OutputPaths
                         ELSE config.OutputPathsJS
              before  == IF err.kind = "clear" THEN <<>> ELSE config.OutputPaths
          IN  /\ ti \in 1..Len(targets)
              /\ err.path = targets[ti].Path
              /\ Range(resets) \subseteq
                    {x.Path : x \in Range(before \o SubSeq(targets, 1, ti - 1))}

C8_Witness ==
    /\ pc = "failed"
    /\ err.kind = "clear"
    /\ ti < Len(config.OutputPaths)
    /\ Exists(fs, config.OutputPaths[ti + 1].Path)
    /\ \E h \in Handled : HasBinding(ServiceAt(h))

\* C9: a run that ends with an error leaves no file it generated in any
\* target directory.
C9_AllOrNothing ==
    pc = "failed" => \A w \in Range(written) : ~Exists(fs, w.path)

-----------------------------------------------------------------------------
(* parseOutputPaths on its own *)

\* the longest list value tried, in atoms
MaxLen == 5

ListAlphabet == {"a", ";", ":", " "}

ExampleList == <<"a", ";", "b", ":", "@", "/", "x", ";", "c">>

Values ==
    UNION {[1..n -> ListAlphabet] : n \in 0..MaxLen} \cup {ExampleList}

InitParse ==
    /\ value \in Values
    /\ paths = <<>>
    /\ pdone = FALSE
    /\ param = <<>> /\ gen = <<>> /\ fs = EmptyMap /\ fs0 = EmptyMap
    /\ config = NoConfig
    /\ pc = "parse"
    /\ fi = 1 /\ si = 1 /\ ti = 1
    /\ methods = <<>>
    /\ err = NoErr
    /\ resets = <<>> /\ written = <<>> /\ skipped = <<>>
    /\ first = NoRun

ParseList ==
    /\ ~pdone
    /\ paths' = parseOutputPaths(value)
    /\ pdone' = TRUE
    /\ UNCHANGED value
    /\ UNCHANGED <<mainVars, first>>

NextParse == ParseList

SpecParse == InitParse /\ [][NextParse]_vars

\* t is e without its leading and trailing blanks
IsTrimOf(t, e) ==
    \E lo \in 1..(Len(e) + 1) : \E hi \in 0..Len(e) :
        /\ \A k \in 1..(lo - 1) : e[k] = " "
        /\ \A k \in (hi + 1)..Len(e) : e[k] = " "
        /\ lo <= hi => (e[lo] # " " /\ e[hi] # " ")
        /\ lo > hi => (lo = Len(e) + 1 /\ hi = 0)
        /\ t = SubSeq(e, lo, hi)

\* the target the list grammar gives for the entry e
IsTargetOf(t, e) ==
    LET colons == {k \in 1..Len(e) : e[k] = ":"}
    IN  IF colons = {}
        THEN IsTrimOf(t.Path, e) /\ t.ServiceImport = <<>>
        ELSE \E c \in colons :
                /\ \A k \in colons : c <= k
                /\ IsTrimOf(t.Path, SubSeq(e, 1, c - 1))
                /\ IsTrimOf(t.ServiceImport, SubSeq(e, c + 1, Len(e)))

\* the ";"-separated entries of v that are not blank, each as the pair of the
\* positions of the delimiters around it
Entries(v) ==
    LET cuts == {0, Len(v) + 1} \cup {k \in 1..Len(v) : v[k] = ";"}
    IN  {<<lo, hi>> \in cuts \X cuts :
            /\ lo < hi
            /\ \A k \in cuts : ~(lo < k /\ k < hi)
            /\ \E k \in (lo + 1)..(hi - 1) : v[k] # " "}

\* C10: parseOutputPaths gives one target per non-blank ";"-separated entry,
\* in input order, split at the entry's first ":" with both sides trimmed;
\* "a;b:@/x;c" gives {a, ""}, {b, "@/x"}, {c, ""}.
C10_ListGrammar ==
    pdone
    => /\ Len(paths) = Cardinality(Entries(value))
       /\ \A e \in Entries(value) :
             LET nth == Cardinality({d \in Entries(value) : d[1] <= e[1]})
             IN  IsTargetOf(paths[nth], SubSeq(value, e[1] + 1, e[2] - 1))
       /\ value = ExampleList
          => paths = <<OutputPathConfig(<<"a">>, <<>>),
                       OutputPathConfig(<<"b">>, <<"@", "/", "x">>),
                       OutputPathConfig(<<"c">>, <<>>)>>

C10_Witness ==
    /\ pdone
    /\ Len(paths) = 2
    /\ \E k \in 1..Len(value) : value[k] = " "
    /\ \E k \in 1..Len(paths) : \E m \in 1..Len(paths[k].ServiceImport) :
          paths[k].ServiceImport[m] = ":"

-----------------------------------------------------------------------------
(* parsePluginOptions on its own *)

\* the most "," separated pairs of a configuration string tried
MaxPairs == 2

\* the pairs a configuration string is made of
PairPool ==
    { KV("service_import", <<"s">>),
      <<" ", "service_import_js", " ", "=", " ", "j", " ">>,
      KV("types_import_path", <<"t">>),
      KV("output_paths", ListAC),
      KV("output_paths_js", <<"c", ":", "y">>),
      KV("output_paths", ListNoPath),
      KV("service_import", <<"a", "=", "b">>),
      KV("unknown", <<"u">>),
      KV("Service_import", <<"u">>),
      <<"=", "u">>,
      <<"verbose">>,
      <<"service_import">>,
      <<" ">>,
      <<>> }

OptionStrings ==
    {JoinStrings(ps, <<",">>) : ps \in UNION {[1..n -> PairPool] : n \in 0..MaxPairs}}

InitOptions ==
    /\ param \in OptionStrings
    /\ gen = <<>> /\ fs = EmptyMap /\ fs0 = EmptyMap
    /\ config = NoConfig
    /\ pc = "parse"
    /\ fi = 1 /\ si = 1 /\ ti = 1
    /\ methods = <<>>
    /\ err = NoErr
    /\ resets = <<>> /\ written = <<>> /\ skipped = <<>>
    /\ value = <<>> /\ paths = <<>> /\ pdone = FALSE
    /\ first = NoRun

NextOptions == ParseOptions

SpecOptions == InitOptions /\ [][NextOptions]_vars

KnownKeys ==
    {"service_import", "service_import_js", "types_import_path",
     "output_paths", "output_paths_js"}

\* the pair holds an "=" and what stands before its first "=" is, blanks
\* around it aside, one of the five keys
IsKnownPair(pair) ==
    \E k \in 1..Len(pair) :
        /\ pair[k] = "="
        /\ \A m \in 1..(k - 1) : pair[m] # "="
        /\ \E key \in KnownKeys : IsTrimOf(<<key>>, SubSeq(pair, 1, k - 1))

\* the configuration string p without the pairs that are not known pairs
WithoutIgnored(p) == JoinStrings(SelectSeq(Split(p, ","), IsKnownPair), <<",">>)

\* C11: parsePluginOptions returns a configuration for every string and
\* never an error; a pair with an unknown key and a pair without "=" have
\* no effect: the configuration is the one parsed from the string with
\* those pairs removed.
C11_UnknownPairsIgnored ==
    Parsed
    => /\ config = parsePluginOptions(WithoutIgnored(param))
       /\ \A k \in KnownKeys :
             (\A m \in 1..Len(param) : param[m] # k) =>
                /\ k = "service_import" => config.ServiceImport = DefaultConfig.ServiceImport
                /\ k = "service_import_js" => config.ServiceImportJS = <<>>
                /\ k = "types_import_path" => config.TypesImportPath = DefaultConfig.TypesImportPath
                /\ k = "output_paths" => config.OutputPaths = <<>>
                /\ k = "output_paths_js" => config.OutputPathsJS = <<>>
       /\ err = NoErr /\ pc # "failed"

C11_Witness ==
    /\ Parsed
    /\ WithoutIgnored(param) # param
    /\ WithoutIgnored(param) # <<>>
    /\ \E m \in 1..Len(param) : param[m] = "unknown"
    /\ config # DefaultConfig

-----------------------------------------------------------------------------
(* the text of a generated file *)

\* the position of the first atom of data that is the literal lit
First(data, lit) ==
    CHOOSE k \in 1..Len(data) : data[k] = lit /\ \A m \in 1..(k - 1) : data[m] # lit

Has(data, lit) == \E k \in 1..Len(data) : data[k] = lit

\* what the first line of a generated file imports the client from
ImportOf(data) ==
    LET close == IF Has(data, "';\n") THEN First(data, "';\n") ELSE First(data, "';\n\n")
    IN  SubSeq(data, 2, close - 1)

\* the import the configuration gives a target of a flavor
EffectiveImport(flavor, cfg, target) ==
    IF target.ServiceImport # <<>> THEN target.ServiceImport
    ELSE IF flavor = "js" /\ cfg.ServiceImportJS # <<>> THEN cfg.ServiceImportJS
    ELSE cfg.ServiceImport

Last(seq) == seq[Len(seq)]

\* C12: the client import of a written file is the override of its target
\* when that is not empty, else for an untyped target service_import_js
\* when that is not empty, else service_import ('./api' when the string
\* does not set it); it is computed from the parsed configuration string
\* and the target alone, and no step after parsing changes the
\* configuration.
C12_EffectiveImport ==
    /\ [][Parsed => config' = config]_vars
    /\ [](Parsed => config = parsePluginOptions(param))
    /\ [][written' # written
          => LET w == Last(written')
                 cfg == parsePluginOptions(param)
                 targets == IF w.flavor = "ts" THEN cfg.OutputPaths
                            ELSE cfg.OutputPathsJS
             IN  /\ w.dir = targets[ti].Path
                 /\ w.data[1] = "import service from '"
                 /\ ImportOf(w.data) = EffectiveImport(w.flavor, cfg, targets[ti])
                 /\ (~Has(param, "service_import") /\ ~Has(param, "service_import_js")
                     /\ targets[ti].ServiceImport = <<>>)
                    => ImportOf(w.data) = <<"./api">>]_vars

C12_Witness ==
    /\ pc = "done"
    /\ config.ServiceImportJS # <<>>
    /\ \E v \in Range(written) : \E w \in Range(written) :
          /\ v.si # w.si
          /\ v.flavor = "js" /\ w.flavor = "js"
          /\ ImportOf(v.data) = config.ServiceImportJS
          /\ ImportOf(w.data) = config.ServiceImportJS
    /\ \E w \in Range(written) :
          w.flavor = "ts" /\ ImportOf(w.data) = config.ServiceImport

-----------------------------------------------------------------------------
(* generateFrontendApi on the services of a schema *)

\* the most methods of a service tried
MaxMethods == 2

PathUpper == <<"/", "U">>

\* the (google.api.http) annotations a method can carry
HttpShapes ==
    {Http("none", <<>>), Http("nopattern", <<>>),
     Http("custom", <<>>), Http("custom", PathGet),
     Http("put", <<>>), Http("post", <<>>), Http("get", PathUpper)}
    \cup {Http(v, PathGet) : v \in Verbs}

MethodNames == <<<<"G">>, <<"L">>, <<"N">>, <<"K">>>>

\* services whose methods carry every combination of annotations
ShapeServices ==
    {Service(<<"U", "Service">>,
             [k \in 1..Len(hs) |-> Method(MethodNames[k], hs[k], MsgQ, MsgR)]) :
        hs \in UNION {[1..n -> HttpShapes] : n \in 0..MaxMethods}}

ConfigCenterService ==
    <<"C", "o", "n", "f", "i", "g", "C", "e", "n", "t", "e", "r", "Service">>

ServiceNames ==
    { <<"U", "s", "e", "r", "Service">>, ConfigCenterService,
      <<"U">>, <<"u", "Service">>, <<"Service">>, <<"U", "Service", "Service">>,
      <<"Service", "H", "u", "b">>, <<"U", "R", "L", "Service">>,
      <<"U", "service">>, <<"U", "Service", "s">> }

\* services of every name, each with one bound method
NameServices == {Service(n, <<MGet>>) : n \in ServiceNames}

ProtoW == <<"p", "\\", "w", ".proto">>

\* request and response types: two of them named Q, declared in two files
MsgPool == {MsgQ, MsgR, Message(<<"Q">>, ProtoV), Message(<<"E">>, ProtoW)}

\* services of two methods, the first bound, with every choice of types
TypeServices ==
    {Service(<<"T", "Service">>,
             <<Method(MethodNames[1], Http("post", PathGet), t[1], t[2]),
               Method(MethodNames[2], h, t[3], t[4])>>) :
        t \in [1..4 -> MsgPool], h \in {Http("get", PathUpper), Http("none", <<>>)}}

\* a message declared in the schema file named ".proto"
MsgDot == Message(<<"D">>, <<".proto">>)

\* services of one bound method, its types from the pool or from ".proto"
DotServices ==
    {Service(<<"D", "Service">>,
             <<Method(MethodNames[1], Http("post", PathGet), t[1], t[2])>>) :
        t \in [1..2 -> MsgPool \cup {MsgDot}]}

UnitServices == ShapeServices \cup NameServices \cup TypeServices \cup DotServices

ParamBoth == KV("output_paths", ListA) \o <<",">> \o KV("output_paths_js", ListA)

\* a type root that ends in "/"
ParamRoot ==
    KV("output_paths", ListA) \o <<",">>
    \o KV("types_import_path", <<"@", "/", "t", "/">>)

InitService ==
    /\ param \in {ParamBoth, ParamRoot}
    /\ gen \in {<<File(TRUE, <<s>>)>> : s \in UnitServices}
    /\ fs = FsOf({<<DirA, DirNode>>})
    /\ fs0 = fs
    /\ config = NoConfig
    /\ pc = "parse"
    /\ fi = 1 /\ si = 1 /\ ti = 1
    /\ methods = <<>>
    /\ err = NoErr
    /\ resets = <<>> /\ written = <<>> /\ skipped = <<>>
    /\ value = <<>> /\ paths = <<>> /\ pdone = FALSE
    /\ first = NoRun

SpecService == InitService /\ [][Next]_vars

\* C13: extractHttpRule gives, for every method descriptor, either no rule
\* or one (verb, path) pair; it gives (v, p) exactly when the annotation's
\* pattern is one of post, get, put, delete, patch with the non-empty path
\* p, v in lower case and p as it stands; it gives no rule without an
\* annotation, without a pattern, for an empty path and for any other
\* pattern; the methods of the service being generated are those pairs, and
\* extraction raises no error.
C13_ExtractorExact ==
    /\ \A h \in Handled : \A k \in 1..Len(ServiceAt(h).Methods) :
          LET m == ServiceAt(h).Methods[k]
              r == extractHttpRule(m)
          IN  /\ r # NoRule
                 <=> (/\ m.Http.kind \in {"post", "get", "put", "delete", "patch"}
                      /\ m.Http.path # <<>>)
              /\ r # NoRule => (r.Method = m.Http.kind /\ r.Path = m.Http.path)
    /\ pc \in {"ts", "js"}
       => LET bound == SelectSeq(CurrentService.Methods, Bound)
          IN  /\ Len(methods) = Len(bound)
              /\ \A k \in 1..Len(bound) :
                    /\ methods[k].MethodName = bound[k].Name
                    /\ methods[k].HttpMethod = <<bound[k].Http.kind>>
                    /\ methods[k].HttpPath = bound[k].Http.path
    /\ err # NoErr => err.kind \in {"clear", "clearJS", "stat", "statJS", "write", "writeJS"}

C13_Witness ==
    /\ pc = "ts"
    /\ Len(CurrentService.Methods) = 2
    /\ CurrentService.Methods[1].Http = Http("put", <<>>)
    /\ Len(methods) = 1
    /\ methods[1].HttpMethod = <<"get">>
    /\ methods[1].HttpPath = PathUpper

\* sub stands in data as a run of consecutive atoms
Contains(data, sub) ==
    \E k \in 1..(Len(data) - Len(sub) + 1) : SubSeq(data, k, k + Len(sub) - 1) = sub

\* the service a file was written for
ServiceOf(w) == gen[w.fi].Services[w.si]

\* the entry of the typed object literal for the method descriptor d, arrow
\* and call on one line
TypedEntry(d) ==
    d.Name \o <<": (data: ">> \o d.Input.Name \o <<"): Promise<">>
    \o d.Output.Name \o <<"> => service.">> \o <<d.Http.kind>> \o <<"('">>
    \o d.Http.path \o <<"', data)">>

\* C14: a written typed file holds, for every bound method, the entry
\* <MethodName>: (data: <Req>): Promise<<Resp>> => service.<verb>('<path>', data)
\* as one run of text.
C14_TypedEntryShape ==
    \A w \in Range(written) :
        w.flavor = "ts"
        => \A k \in 1..Len(ServiceOf(w).Methods) :
              Bound(ServiceOf(w).Methods[k])
              => Contains(w.data, TypedEntry(ServiceOf(w).Methods[k]))

\* what stands between the braces of the object literal of a file
Literal(data) == SubSeq(data, First(data, " = {\n") + 1, First(data, "};\n\n") - 1)

\* the positions in an object literal where an entry ends
EntryEnds(lit) == {k \in 1..Len(lit) : lit[k] \in {",\n", "\n"}}

\* the j-th entry of an object literal, without what ends it
EntryAt(lit, j) ==
    LET end(i) == IF i = 0 THEN 0
                  ELSE CHOOSE k \in EntryEnds(lit) :
                          Cardinality({m \in EntryEnds(lit) : m <= k}) = i
    IN  SubSeq(lit, end(j - 1) + 1, end(j) - 1)

C16_OneFilePerService ==
    pc = "done"
    => /\ \A v \in Range(written) : \A w \in Range(written) :
             <<v.fi, v.si>> # <<w.fi, w.si>> => v.path # w.path
       /\ \A w \in Range(written) :
             \E v \in Range(written) :
                /\ <<v.fi, v.si>> = <<w.fi, w.si>>
                /\ v.path = w.path
                /\ fs[w.path] = FileNode(v.data)

\* the name the files and the exported object of the service named s get
BaseName(s) ==
    LET t == IF s # <<>> /\ Last(s) = "Service" THEN SubSeq(s, 1, Len(s) - 1) ELSE s
    IN  (IF t = <<>> THEN <<>> ELSE <<ToLowerAtom(Head(t))>> \o Tail(t)) \o <<"Api">>

Between(data, open, close) == SubSeq(data, First(data, open) + 1, First(data, close) - 1)

\* C17: files and exported object of a service named s are named after s
\* without one trailing "Service", its first character in lower case and
\* the others unchanged, followed by "Api"; the file adds ".ts" or ".js";
\* the exported object and the default export are the same identifier
\* (UserService gives userApi, ConfigCenterService gives configCenterApi).
C17_BaseName ==
    \A w \in Range(written) :
        LET b == BaseName(ServiceOf(w).Name)
            file == SubSeq(b, 1, Len(b) - 1)
                    \o <<IF w.flavor = "ts" THEN "Api.ts" ELSE "Api.js">>
        IN  /\ w.path = Join(w.dir, file)
            /\ Between(w.data, "export const ", " = {\n") = b
            /\ Between(w.data, "export default ", ";\n") = b
            /\ ServiceOf(w).Name = <<"U", "s", "e", "r", "Service">>
               => b = <<"u", "s", "e", "r", "Api">>
            /\ ServiceOf(w).Name = ConfigCenterService
               => b = <<"c", "o", "n", "f", "i", "g", "C", "e", "n", "t", "e", "r", "Api">>

C17_Witness ==
    /\ pc = "done"
    /\ \E v \in Range(written) : \E w \in Range(written) :
          /\ ServiceOf(v).Name = ConfigCenterService
          /\ v.flavor = "ts" /\ w.flavor = "js"
          /\ IsFile(fs, v.path) /\ IsFile(fs, w.path)
          /\ Last(v.path) = "Api.ts" /\ Last(w.path) = "Api.js"

-----------------------------------------------------------------------------
(* two invocations on the same request *)

\* protoc runs the plugin once more, with the same parameter and files, on
\* the file system the first invocation began with
RunAgain ==
    /\ pc = "done"
    /\ ~first.done
    /\ first' = [done |-> TRUE, fs |-> fs]
    /\ fs' = fs0
    /\ config' = NoConfig
    /\ pc' = "parse"
    /\ fi' = 1 /\ si' = 1 /\ ti' = 1
    /\ methods' = <<>>
    /\ resets' = <<>> /\ written' = <<>> /\ skipped' = <<>>
    /\ UNCHANGED <<param, gen, fs0, err>>
    /\ UNCHANGED parseVars

NextTwice ==
    \/ Next
    \/ RunAgain

SpecTwice == Init /\ [][NextTwice]_vars

\* C18: two invocations with the same configuration string, the same batch
\* and the same initial file system, both finishing without error, end with
\* the same file system: the same files with the same bytes.
C18_Deterministic ==
    (pc = "done" /\ first.done) => fs = first.fs

C18_Witness ==
    /\ pc = "done"
    /\ first.done
    /\ \E w \in Range(written) :
          /\ w.flavor = "ts"
          /\ IsFile(fs, w.path)
          /\ Contains(w.data, <<"import type { ", "Q", ", ", "R", " } from '">>)
    /\ \E w \in Range(written) : w.flavor = "js"

\* the service with its methods listed in the order p
Permuted(service, p) ==
    Service(service.Name, [k \in 1..Len(service.Methods) |-> service.Methods[p[k]]])

\* C19: the import groups of a service do not depend on the order of its
\* methods: listing the methods in any other order gives the same mapping
\* from import path to type names.
C19_GroupingOrderIndependent ==
    pc = "ts"
    => \A p \in Permutations(1..Len(CurrentService.Methods)) :
          collectTypeImports(Permuted(CurrentService, p),
                             BoundMethods(Permuted(CurrentService, p).Methods))
          = collectTypeImports(CurrentService, methods)

\* the logical path of a schema file: ".proto" at the end and "./" at the
\* head removed, "\" replaced by "/"
LogicalPath(file) ==
    LET a == IF file # <<>> /\ Last(file) = ".proto"
             THEN SubSeq(file, 1, Len(file) - 1) ELSE file
        b == IF Len(a) >= 2 /\ a[1] = "." /\ a[2] = "/" THEN SubSeq(a, 3, Len(a)) ELSE a
    IN  [k \in 1..Len(b) |-> IF b[k] = "\\" THEN "/" ELSE b[k]]

InGroup(groups, msg) ==
    /\ LogicalPath(msg.File) \in DOMAIN groups
    /\ msg.Name \in Range(groups[LogicalPath(msg.File)])

\* C20: the request type and the response type of every bound method are
\* members of the import group of the file that declares them, keyed by the
\* file's logical path; a group holds nothing but request and response
\* types of bound methods.
C20_TypesInTheirGroup ==
    pc = "ts"
    => \A groups \in collectTypeImports(CurrentService, methods) :
          LET ds == SelectSeq(CurrentService.Methods, Bound)
          IN  /\ \A k \in 1..Len(ds) :
                    InGroup(groups, ds[k].Input) /\ InGroup(groups, ds[k].Output)
              /\ \A ip \in DOMAIN groups : \A t \in Range(groups[ip]) :
                    \E k \in 1..Len(ds) :
                       \/ ds[k].Input.Name = t /\ LogicalPath(ds[k].Input.File) = ip
                       \/ ds[k].Output.Name = t /\ LogicalPath(ds[k].Output.File) = ip

\* the positions in a file where a type-only import statement begins
ImportStarts(data) == {k \in 1..Len(data) : data[k] = "import type { "}

\* the first position after k of data that holds the literal lit
Next1(data, k, lit) ==
    CHOOSE m \in (k + 1)..Len(data) :
        data[m] = lit /\ \A n \in (k + 1)..(m - 1) : data[n] # lit

\* the names the import statement beginning at k lists, and where from
NamesAt(data, k) == SubSeq(data, k + 1, Next1(data, k, " } from '") - 1)

FromAt(data, k) ==
    SubSeq(data, Next1(data, k, " } from '") + 1, Next1(data, k, "';\n") - 1)

\* the type root joined to a group path by exactly one "/"
RootJoin(root, ip) ==
    IF root # <<>> /\ Last(root) = "/" THEN root \o ip ELSE root \o <<"/">> \o ip

Ascending(list) == \A k \in 1..(Len(list) - 1) : StrLess(list[k], list[k + 1])

\* C21: every group collectTypeImports returns lists its type names without
\* a duplicate and in ascending order; a written typed file has one
\* type-only import statement per group, in ascending order of the group
\* paths, each importing the group's names from the type root joined to the
\* group path by exactly one "/".
C21_SortedGroups ==
    /\ pc = "ts"
       => \A groups \in collectTypeImports(CurrentService, methods) :
             \A ip \in DOMAIN groups :
                /\ ip # <<>> /\ groups[ip] # <<>>
                /\ Ascending(groups[ip])
    /\ \A w \in Range(written) :
          w.flavor = "ts"
          => \E groups \in collectTypeImports(ServiceOf(w),
                                              BoundMethods(ServiceOf(w).Methods)) :
                /\ Cardinality(ImportStarts(w.data)) = Cardinality(DOMAIN groups)
                /\ \A k \in ImportStarts(w.data) :
                      LET j == Cardinality({m \in ImportStarts(w.data) : m < k})
                          ip == CHOOSE q \in DOMAIN groups :
                                   Cardinality({r \in DOMAIN groups : StrLess(r, q)}) = j
                      IN  /\ NamesAt(w.data, k) = JoinStrings(groups[ip], <<", ">>)
                          /\ FromAt(w.data, k) = RootJoin(config.TypesImportPath, ip)

C21_Witness ==
    /\ pc = "done"
    /\ Last(config.TypesImportPath) = "/"
    /\ \E w \in Range(written) :
          /\ w.flavor = "ts"
          /\ Cardinality(ImportStarts(w.data)) = 2
          /\ \E k \in ImportStarts(w.data) :
                NamesAt(w.data, k) = <<"Q", ", ", "R">>

\* C22: every target of the configuration parsePluginOptions returns has a
\* path that is not empty after trimming.
C22_TargetPathNonEmpty ==
    Parsed => \A t \in AllTargets : TrimSpace(t.Path) # <<>>

-----------------------------------------------------------------------------
(* two invocations that differ in the order of the target lists *)

\* the list value v with its ";"-separated entries in any order
PermutedValues(v) ==
    LET es == Split(v, ";")
    IN  {JoinStrings([k \in 1..Len(es) |-> es[q[k]]], <<";">>) :
            q \in Permutations(1..Len(es))}

\* a pair of the configuration string, its entries reordered if it is a
\* target list
PermutedPair(pair) ==
    LET kv == SplitN2(pair, "=")
    IN  IF Len(kv) = 2 /\ TrimSpace(kv[1]) \in {Str("output_paths"), Str("output_paths_js")}
        THEN {kv[1] \o <<"=">> \o v : v \in PermutedValues(kv[2])}
        ELSE {pair}

\* the configuration strings that differ from p in the order of the entries
\* of output_paths and output_paths_js only
PermutedParams(p) ==
    LET ps == Split(p, ",")
    IN  {JoinStrings(c, <<",">>) :
            c \in {d \in [1..Len(ps) -> UNION {PermutedPair(ps[k]) : k \in 1..Len(ps)}] :
                      \A k \in 1..Len(ps) : d[k] \in PermutedPair(ps[k])}}

\* protoc runs the plugin once more on the file system the first invocation
\* began with, the target lists of the parameter reordered
RunPermuted ==
    /\ pc = "done"
    /\ ~first.done
    /\ param' \in PermutedParams(param)
    /\ first' = [done |-> TRUE, fs |-> fs]
    /\ fs' = fs0
    /\ config' = NoConfig
    /\ pc' = "parse"
    /\ fi' = 1 /\ si' = 1 /\ ti' = 1
    /\ methods' = <<>>
    /\ resets' = <<>> /\ written' = <<>> /\ skipped' = <<>>
    /\ UNCHANGED <<gen, fs0, err>>
    /\ UNCHANGED parseVars

NextPermuted ==
    \/ Next
    \/ RunPermuted

SpecPermuted == Init /\ [][NextPermuted]_vars

\* what f holds at and below the path p
Tree(f, p) == [q \in {r \in DOMAIN f : r = p \/ Under(p, r)} |-> f[q]]

\* C23: two invocations that differ only in the order of the entries of
\* output_paths or output_paths_js, both finishing without error, leave
\* every target directory with the same contents.
C23_TargetOrderIrrelevant ==
    (pc = "done" /\ first.done)
    => \A t \in AllTargets : Tree(fs, t.Path) = Tree(first.fs, t.Path)

\* C24: when the reset loops of main have finished, every target that was
\* a directory before the invocation is an empty directory, whatever the
\* other targets are; no render job for such a target is skipped because
\* the directory does not exist.
C24_ExistingTargetsKept ==
    /\ ResetDone
       => \A t \in AllTargets : IsDir(fs0, t.Path) => EmptyDir(fs, t.Path)
    /\ \A j \in Range(skipped) : ~IsDir(fs0, j.dir)

\* the type names the import statement beginning at k lists
ListedAt(data, k) == Range(Split(NamesAt(data, k), ", "))

\* the request and response type names in the signatures of a typed file
SignatureTypes(data) ==
    LET lit == Literal(data)
    IN  UNION {{SubSeq(lit, k + 1, Next1(lit, k, "): Promise<") - 1),
                SubSeq(lit, Next1(lit, k, "): Promise<") + 1,
                       Next1(lit, k, "> =>\n") - 1)} :
               k \in {m \in 1..Len(lit) : lit[m] = ": (data: "}}

\* every type of a signature of the file is listed by exactly one import
\* statement, and no name by two
ImportedOnce(data) ==
    /\ \A n \in SignatureTypes(data) :
          Cardinality({k \in ImportStarts(data) : n \in ListedAt(data, k)}) = 1
    /\ \A j \in ImportStarts(data) : \A k \in ImportStarts(data) :
          j # k => ListedAt(data, j) \cap ListedAt(data, k) = {}

\* the messages the bound methods of a service take and return
TypesOf(service) ==
    UNION {{service.Methods[k].Input, service.Methods[k].Output} :
              k \in {m \in 1..Len(service.Methods) : Bound(service.Methods[m])}}

====
